---- MODULE Spec2Model ----
(***************************************************************************)
(* Model of the Klaviyo analysis scripts:                                  *)
(*   analyze_segments.py       get_all_segments, get_segment_profile_ids,  *)
(*                             find_segment, main                          *)
(*   export_campaign_revenue.py  get_placed_order_metric_id,               *)
(*                             get_campaign_revenue, the matching loop of  *)
(*                             main                                        *)
(*                                                                         *)
(* The HTTP server is the environment: every request is answered by a      *)
(* status and, for a 200, a JSON body chosen by \E.                        *)
(* One action is one pass through a loop body (the request, the handling   *)
(* of its response, the sleep that follows).  Strings that the code        *)
(* inspects character by character (segment names, search strings) are     *)
(* sequences of one-character strings.  Durations are in tenths of a       *)
(* second.                                                                 *)
(***************************************************************************)
EXTENDS Integers, Sequences, FiniteSets, TLC

VARIABLES
    fn,               \* the function being executed
    pc,               \* its position: "loop" / "call" / "done"
    url,              \* local variable url (NoUrl models None)
    segments,         \* get_all_segments: the list; find_segment: its argument
    profile_ids,      \* get_segment_profile_ids: the set
    max_profiles,     \* get_segment_profile_ids: the parameter
    ret,              \* the value handed to the caller, once pc = "done"
    depth,            \* get_campaign_revenue: recursion depth
    log,              \* history: the requests (with their responses) and sleeps
                      \* since the last 200 response but one
    pages,            \* history: number of 200 responses
    pageSizes,        \* history: the numbers of records of the 200 pages
    servedSeq,        \* history: raw segment records of the 200 pages, in order
    servedIds,        \* history: profile ids of the 200 pages
    dupSeen,          \* history: some identifier was served on two pages
    search,           \* find_segment: the argument search
    found,            \* find_segment: the result (<<>> models None)
    segment_profiles, \* main: name -> set of profile ids
    report,           \* main: the sizes printed by the overlap report
    firstSize,        \* history: number of records of the first 200 page (-1: none yet)
    lastKeys,         \* history: the top-level keys of the latest 200 page
    found_segments,   \* main: the dict found, target -> segment
    choice,           \* main: the answer to "Enter choice (1 or 2)" (<<>>: not asked)
    profile_calls,    \* history: the targets get_segment_profile_ids was called for
    campaigns,        \* export main: the list of campaigns
    revenue_data,     \* export main: message_id -> [revenue, orders]
    position,         \* export main: campaigns handled by the matching loop
    total_revenue,    \* export main
    total_orders,     \* export main
    matched_count     \* export main

pageVars == <<firstSize, lastKeys>>
mainVars == <<found_segments, choice, profile_calls>>
matchVars == <<campaigns, revenue_data, position, total_revenue, total_orders,
               matched_count>>

vars == <<fn, pc, url, segments, profile_ids, max_profiles, ret, depth, log,
          pages, pageSizes, servedSeq, servedIds, dupSeen, search, found, segment_profiles, report,
          pageVars, mainVars, matchVars>>

---------------------------------------------------------------------------
(* Bounds of the model *)

NumIds == 3        \* distinct record identifiers the server can serve
MaxPage == 2       \* records on one page of profiles or metrics
MaxSegPage == 1    \* records on one page of segments
MaxPages == 3      \* 200 responses of one profile collection
MaxSegPages == 2   \* 200 responses of one segment collection
Max429 == 4        \* 429 responses in a row
MaxCap == 3        \* largest max_profiles tried
MaxSegs == 3       \* length of the list handed to find_segment
NumProfiles == 6   \* profile identifiers in the overlap report
NumSemi == 2       \* profile identifiers of the third segment in the overlap report
MaxMetricPages == 2 \* 200 responses of the metrics listing
MaxCampaigns == 3  \* campaigns read from the CSV

(* The retry cap the specification speaks of; the code has none. *)
max_retries == 3

---------------------------------------------------------------------------
(* Program constants *)

BackoffTenths == 300       \* time.sleep(30) after a 429
RATE_LIMIT_DELAY == 5      \* 0.5 s between profile pages
SegmentPageDelay == 3      \* time.sleep(0.3) between segment pages
MetricPageDelay == 5       \* time.sleep(0.5) after a metrics page
SegmentPause == 10         \* time.sleep(1) after the profiles of a segment

NoUrl == "None"
SegmentsUrl == "BASE_URL/segments/"
ProfilesUrl == "BASE_URL/segments/ID/profiles/"
RevenueUrl == "BASE_URL/metric-aggregates/"
MetricsUrl == "BASE_URL/metrics/"
(* The next links the server hands out: a cursor URL, which carries a      *)
(* query, a next link without a query string, and a string that is no URL. *)
NextUrls == {"BASE_URL/next?page[cursor]=a"}
PlainNextUrl == "BASE_URL/segments/ID/profiles/page2"
MalformedUrl == "not a url"
NextChoices == NextUrls \cup {PlainNextUrl, MalformedUrl, NoUrl}

(* "?" in url *)
HasQuery(u) == u \in NextUrls

(* requests.get(url, ...) raises (MissingSchema) for a string that is no   *)
(* URL; nothing in the scripts catches it.                                 *)
GetRaises(u) == u = MalformedUrl

ErrorStatuses == {404, 500}

---------------------------------------------------------------------------
(* Strings as sequences of characters *)

sNoDelta8 == <<"N","o"," ","D","e","l","t","a"," ","8">>
sNoTHCA == <<"N","o"," ","T","H","C","A">>
sNoThcaLower == <<"n","o"," ","t","h","c","a">>
sSemiActive == <<"S","e","m","i"," ","A","c","t","i","v","e">>
sNo == <<"N","O">>
sDelta8Lower == <<"d","e","l","t","a"," ","8">>
sNoLower == <<"n","o">>
sNoDelta8Upper == <<"N","O"," ","D","E","L","T","A"," ","8">>
sSemi == <<"s","e","m","i">>
sXyz == <<"x","y","z">>
sEmpty == <<>>
sPlacedOrder == <<"P","l","a","c","e","d"," ","O","r","d","e","r">>
sPlacedOrderLower == <<"p","l","a","c","e","d"," ","o","r","d","e","r">>
sOpenedEmail == <<"O","p","e","n","e","d"," ","E","m","a","i","l">>

UpperChars == <<"A","B","C","D","E","F","G","H","I","J","K","L","M",
                "N","O","P","Q","R","S","T","U","V","W","X","Y","Z">>
LowerChars == <<"a","b","c","d","e","f","g","h","i","j","k","l","m",
                "n","o","p","q","r","s","t","u","v","w","x","y","z">>

(* str.lower(), character by character *)
LowerChar(c) ==
    IF \E i \in DOMAIN UpperChars : UpperChars[i] = c
    THEN LowerChars[CHOOSE i \in DOMAIN UpperChars : UpperChars[i] = c]
    ELSE c

Lower(s) == [i \in DOMAIN s |-> LowerChar(s[i])]

(* a in b, for strings *)
IsSubstr(a, b) ==
    \E k \in 0..(Len(b) - Len(a)) : \A i \in 1..Len(a) : b[k + i] = a[i]

---------------------------------------------------------------------------
(* What the server can send *)

Ids == 1..NumIds

(* The sequences over S of length at most n that name no element twice *)
Pages(S, n) ==
    {s \in UNION {[1..k -> S] : k \in 0..n} :
        \A i, j \in DOMAIN s : i # j => s[i] # s[j]}

(* A raw profile record of a page; the code reads only its id *)
ProfileRaw(i) == [id |-> i]

(* A raw segment record; the third one carries no attributes.name *)
SegmentRaw(i) ==
    CASE i = 1 -> [id |-> i, attributes |-> [name |-> sNoDelta8]]
      [] i = 2 -> [id |-> i, attributes |-> [name |-> sNoTHCA]]
      [] i = 3 -> [id |-> i, attributes |-> [created |-> "2024"]]
      [] OTHER -> [id |-> i, attributes |-> [name |-> sSemiActive]]

(* The profiles of a page go into a set: their order within the page is    *)
(* without effect, and the pages are taken in ascending order of id.       *)
ProfilePages ==
    {s \in Pages({ProfileRaw(i) : i \in Ids}, MaxPage) :
        \A i, j \in DOMAIN s : i < j => s[i].id < s[j].id}
SegmentPages == Pages({SegmentRaw(i) : i \in Ids}, MaxSegPage)

RawIds(data) == {data[i].id : i \in DOMAIN data}

(* The JSON of a 200 response: a page with data and links.next (null is   *)
(* NoUrl), a page without links, a page without data, a page with neither *)
Bodies(P) ==
    {[data |-> d, links |-> [next |-> nx]] : d \in P, nx \in NextChoices}
    \cup {[data |-> d] : d \in P}
    \cup {[links |-> [next |-> nx]] : nx \in NextChoices}
    \cup {[detail |-> "x"]}

ProfileBodies == Bodies(ProfilePages)
SegmentBodies == Bodies(SegmentPages)

(* data.get("data", []) *)
DataOf(body) == IF "data" \in DOMAIN body THEN body.data ELSE <<>>

(* Faulty variant: a page without links is followed by the cursor page *)
NextOfCursor(body) ==
    IF "links" \in DOMAIN body /\ "next" \in DOMAIN body.links
    THEN body.links.next
    ELSE CHOOSE u \in NextUrls : TRUE

(* data.get("links", {}).get("next") *)
NextOf(body) ==
    IF "links" \in DOMAIN body /\ "next" \in DOMAIN body.links
    THEN body.links.next
    ELSE NoUrl

TopKeys(body) == DOMAIN body \cap {"data", "links"}

(* The size of the first page, once there is one *)
FirstSize(old, data) == IF old = -1 THEN Len(data) ELSE old

---------------------------------------------------------------------------
(* The history *)

(* A request: its URL, whether params went with it, the status of the     *)
(* response and, for a 200, the links.next of the page.  A sleep: its      *)
(* duration.                                                               *)
Get(u, p, s, nx) == [ev |-> "get", url |-> u, params |-> p, n |-> s, next |-> nx]
Post(u, s) == [ev |-> "post", url |-> u, params |-> FALSE, n |-> s, next |-> NoUrl]
Sleep(t) == [ev |-> "sleep", url |-> NoUrl, params |-> FALSE, n |-> t, next |-> NoUrl]

IsRequest(e) == e.ev \in {"get", "post"}
Requests(l) == {i \in DOMAIN l : IsRequest(l[i])}
NumStatus(l, s) == Cardinality({i \in Requests(l) : l[i].n = s})

(* The history is kept from the latest 200 response on: a new request is   *)
(* recorded after what followed that response.                             *)
Trim(l) ==
    LET ok == {i \in Requests(l) : l[i].n = 200}
    IN  IF ok = {} THEN l
        ELSE SubSeq(l, CHOOSE i \in ok : \A j \in ok : j <= i, Len(l))

Record(l, e) == Append(Trim(l), e)

NotReturned == [returned |-> FALSE]

---------------------------------------------------------------------------
(* get_all_segments *)

(* attributes.get("name", "") *)
NameOf(attrs) == IF "name" \in DOMAIN attrs THEN attrs.name ELSE sEmpty

SegmentEntry(raw) == [id |-> raw.id, name |-> NameOf(raw.attributes)]

(* for segment in data: segments.append({...}) *)
AppendSegments(acc, data) ==
    acc \o [i \in DOMAIN data |-> SegmentEntry(data[i])]

(* while url: *)
SegLoopCond == url # NoUrl

(* if url: time.sleep(0.3) *)
SegPageSleep(l, nx) == IF nx # NoUrl THEN Append(l, Sleep(SegmentPageDelay)) ELSE l

SegFetchOk ==
    /\ fn = "get_all_segments" /\ pc = "loop" /\ SegLoopCond
    /\ pages < MaxSegPages
    /\ ~GetRaises(url)
    /\ \E body \in SegmentBodies :
          LET data == DataOf(body)
              nx == NextOf(body)
          IN  /\ pages = MaxSegPages - 1 => nx = NoUrl
              /\ segments' = AppendSegments(segments, data)
              /\ url' = nx
              /\ log' = SegPageSleep(Record(log, Get(url, FALSE, 200, nx)), nx)
              /\ servedSeq' = servedSeq \o data
              /\ pageSizes' = pageSizes \cup {Len(data)}
              /\ dupSeen' = (dupSeen \/ RawIds(data) \cap RawIds(servedSeq) # {})
              /\ firstSize' = FirstSize(firstSize, data)
              /\ lastKeys' = TopKeys(body)
    /\ pages' = pages + 1
    /\ UNCHANGED <<fn, pc, profile_ids, max_profiles, ret, depth, servedIds,
                   search, found, segment_profiles, report>>
    /\ UNCHANGED <<mainVars, matchVars>>

(* if response.status_code != 200: return segments   (a 429 included) *)
SegFetchErr ==
    /\ fn = "get_all_segments" /\ pc = "loop" /\ SegLoopCond
    /\ ~GetRaises(url)
    /\ \E s \in ErrorStatuses \cup {429} :
          log' = Record(log, Get(url, FALSE, s, NoUrl))
    /\ pc' = "done"
    /\ ret' = [records |-> segments]
    /\ UNCHANGED <<pages, pageSizes,
                   fn, url, segments, profile_ids, max_profiles, depth, servedSeq,
                   servedIds, dupSeen, search, found, segment_profiles, report>>
    /\ UNCHANGED <<pageVars, mainVars, matchVars>>

(* requests.get raises: the exception leaves get_all_segments *)
SegGetRaises ==
    /\ fn = "get_all_segments" /\ pc = "loop" /\ SegLoopCond
    /\ GetRaises(url)
    /\ pc' = "raised"
    /\ UNCHANGED <<pages, pageSizes,
                   fn, url, segments, profile_ids, max_profiles, ret, depth, log, servedSeq,
                   servedIds, dupSeen, search, found, segment_profiles, report>>
    /\ UNCHANGED <<pageVars, mainVars, matchVars>>

SegReturn ==
    /\ fn = "get_all_segments" /\ pc = "loop" /\ ~SegLoopCond
    /\ pc' = "done"
    /\ ret' = [records |-> segments]
    /\ UNCHANGED <<pages, pageSizes,
                   fn, url, segments, profile_ids, max_profiles, depth, log, servedSeq,
                   servedIds, dupSeen, search, found, segment_profiles, report>>
    /\ UNCHANGED <<pageVars, mainVars, matchVars>>

---------------------------------------------------------------------------
(* get_segment_profile_ids *)

(* Faulty variant: only the first record of a page is added *)
AddProfilesFirstOnly(acc, data) ==
    acc \cup (IF data # <<>> THEN {data[1].id} ELSE {})

(* for profile in data: profile_ids.add(profile["id"]) *)
AddProfiles(acc, data) == acc \cup {data[i].id : i \in DOMAIN data}

(* Faulty variant: the loop tests the cap only *)
ProfLoopIgnoresUrl == Cardinality(profile_ids) < max_profiles

(* Faulty variant: the cap is tested with <= *)
ProfLoopCapInclusive == url # NoUrl /\ Cardinality(profile_ids) <= max_profiles

(* while url and len(profile_ids) < max_profiles: *)
ProfLoopCond == url # NoUrl /\ Cardinality(profile_ids) < max_profiles

(* params=params if "?" not in url else None *)
SendsParams(u) == ~HasQuery(u)

(* Faulty variant: a 429 is retried at once, without the sleep *)
RateLimitedNoSleep(l) == l

(* time.sleep(30); continue *)
RateLimitedSleep(l) == Append(l, Sleep(BackoffTenths))
RateLimitedUrl(u) == u

(* Faulty variant: the next page is requested without the sleep *)
ProfPageNoSleep(l, nx) == l

(* if url: time.sleep(RATE_LIMIT_DELAY) *)
ProfPageSleep(l, nx) == IF nx # NoUrl THEN Append(l, Sleep(RATE_LIMIT_DELAY)) ELSE l

ProfFetchOk ==
    /\ fn = "get_segment_profile_ids" /\ pc = "loop" /\ ProfLoopCond
    /\ pages < MaxPages
    /\ ~GetRaises(url)
    /\ \E body \in ProfileBodies :
          LET data == DataOf(body)
              nx == NextOf(body)
          IN  /\ pages = MaxPages - 1 => nx = NoUrl
              /\ profile_ids' = AddProfiles(profile_ids, data)
              /\ url' = nx
              /\ log' = ProfPageSleep(Record(log, Get(url, SendsParams(url), 200, nx)), nx)
              /\ servedIds' = servedIds \cup RawIds(data)
              /\ pageSizes' = pageSizes \cup {Len(data)}
              /\ dupSeen' = (dupSeen \/ RawIds(data) \cap servedIds # {})
              /\ firstSize' = FirstSize(firstSize, data)
              /\ lastKeys' = TopKeys(body)
    /\ pages' = pages + 1
    /\ UNCHANGED <<fn, pc, segments, max_profiles, ret, depth, servedSeq,
                   search, found, segment_profiles, report>>
    /\ UNCHANGED <<mainVars, matchVars>>

ProfRateLimited ==
    /\ fn = "get_segment_profile_ids" /\ pc = "loop" /\ ProfLoopCond
    /\ ~GetRaises(url)
    /\ NumStatus(Trim(log), 429) < Max429
    /\ log' = RateLimitedSleep(Record(log, Get(url, SendsParams(url), 429, NoUrl)))
    /\ url' = RateLimitedUrl(url)
    /\ UNCHANGED <<pages, pageSizes,
                   fn, pc, segments, profile_ids, max_profiles, ret, depth, servedSeq,
                   servedIds, dupSeen, search, found, segment_profiles, report>>
    /\ UNCHANGED <<pageVars, mainVars, matchVars>>

(* Faulty variant: an error status does not leave the loop *)
ProfErrorContinues == "loop"

(* if response.status_code != 200: break;  then return profile_ids *)
ProfErrorPc == "done"

ProfFetchErr ==
    /\ fn = "get_segment_profile_ids" /\ pc = "loop" /\ ProfLoopCond
    /\ ~GetRaises(url)
    /\ \E s \in ErrorStatuses :
          log' = Record(log, Get(url, SendsParams(url), s, NoUrl))
    /\ pc' = ProfErrorPc
    /\ ret' = [records |-> profile_ids]
    /\ UNCHANGED <<pages, pageSizes,
                   fn, url, segments, profile_ids, max_profiles, depth, servedSeq,
                   servedIds, dupSeen, search, found, segment_profiles, report>>
    /\ UNCHANGED <<pageVars, mainVars, matchVars>>

(* requests.get raises: the exception leaves get_segment_profile_ids *)
ProfGetRaises ==
    /\ fn = "get_segment_profile_ids" /\ pc = "loop" /\ ProfLoopCond
    /\ GetRaises(url)
    /\ pc' = "raised"
    /\ UNCHANGED <<pages, pageSizes,
                   fn, url, segments, profile_ids, max_profiles, ret, depth, log, servedSeq,
                   servedIds, dupSeen, search, found, segment_profiles, report>>
    /\ UNCHANGED <<pageVars, mainVars, matchVars>>

ProfReturn ==
    /\ fn = "get_segment_profile_ids" /\ pc = "loop" /\ ~ProfLoopCond
    /\ pc' = "done"
    /\ ret' = [records |-> profile_ids]
    /\ UNCHANGED <<pages, pageSizes,
                   fn, url, segments, profile_ids, max_profiles, depth, log, servedSeq,
                   servedIds, dupSeen, search, found, segment_profiles, report>>
    /\ UNCHANGED <<pageVars, mainVars, matchVars>>

---------------------------------------------------------------------------
(* get_campaign_revenue *)

(* A measurement of results[0]: a list (possibly empty), or a bare value,  *)
(* which is held here as the one element of v with list = FALSE            *)
Measure(isList, v) == [list |-> isList, v |-> v]

(* isinstance(x, list): x[0] if x else 0;  otherwise x or 0 *)
FirstOrValue(m) ==
    IF m.list THEN (IF m.v # <<>> THEN m.v[1] ELSE 0) ELSE m.v[1]

(* data.attributes.data of a 200 answer: no result row, or one row *)
RevenueBodies ==
    {<<>>}
    \cup {<<[sum_value |-> sv, count |-> cv]>> :
             sv \in {Measure(TRUE, <<>>), Measure(TRUE, <<25>>), Measure(FALSE, <<0>>)},
             cv \in {Measure(TRUE, <<>>), Measure(TRUE, <<2>>), Measure(FALSE, <<1>>)}}

RevenueOf(results) ==
    IF results # <<>>
    THEN [revenue |-> FirstOrValue(results[1].sum_value),
          orders |-> FirstOrValue(results[1].count)]
    ELSE [revenue |-> 0, orders |-> 0]

(* status 429: sleep 30 s and call get_campaign_revenue again; the value of *)
(* the inner call is returned unchanged by every frame above it.            *)
RevRateLimited ==
    /\ fn = "get_campaign_revenue" /\ pc = "call"
    /\ NumStatus(log, 429) < Max429
    /\ log' = Append(Record(log, Post(url, 429)), Sleep(BackoffTenths))
    /\ depth' = depth + 1
    /\ UNCHANGED <<pages, pageSizes,
                   fn, pc, url, segments, profile_ids, max_profiles, ret, servedSeq,
                   servedIds, dupSeen, search, found, segment_profiles, report>>
    /\ UNCHANGED <<pageVars, mainVars, matchVars>>

RevError ==
    /\ fn = "get_campaign_revenue" /\ pc = "call"
    /\ \E s \in ErrorStatuses : log' = Record(log, Post(url, s))
    /\ pc' = "done"
    /\ ret' = [revenue |-> 0, orders |-> 0]
    /\ UNCHANGED <<pages, pageSizes,
                   fn, url, segments, profile_ids, max_profiles, depth, servedSeq,
                   servedIds, dupSeen, search, found, segment_profiles, report>>
    /\ UNCHANGED <<pageVars, mainVars, matchVars>>

RevOk ==
    /\ fn = "get_campaign_revenue" /\ pc = "call"
    /\ \E results \in RevenueBodies : ret' = RevenueOf(results)
    /\ log' = Record(log, Post(url, 200))
    /\ pc' = "done"
    /\ UNCHANGED <<pages, pageSizes,
                   fn, url, segments, profile_ids, max_profiles, depth, servedSeq,
                   servedIds, dupSeen, search, found, segment_profiles, report>>
    /\ UNCHANGED <<pageVars, mainVars, matchVars>>

---------------------------------------------------------------------------
(* get_placed_order_metric_id *)

(* A raw metric record; the third one carries no attributes.name *)
MetricRaw(i) ==
    CASE i = 1 -> [id |-> i, attributes |-> [name |-> sOpenedEmail]]
      [] i = 2 -> [id |-> i, attributes |-> [name |-> sPlacedOrder]]
      [] OTHER -> [id |-> i, attributes |-> [created |-> "2024"]]

MetricPages == Pages({MetricRaw(i) : i \in Ids}, MaxPage)

MetricBodies == Bodies(MetricPages)

(* if "placed order" in name.lower() *)
IsPlacedOrder(metric) == IsSubstr(sPlacedOrderLower, Lower(NameOf(metric.attributes)))

(* the id of the first such metric of the page: <<>> when there is none *)
FirstPlacedOrder(data) ==
    LET hits == {i \in DOMAIN data : IsPlacedOrder(data[i])}
    IN  IF hits = {} THEN <<>>
        ELSE <<data[CHOOSE i \in hits : \A j \in hits : i <= j].id>>

(* time.sleep(0.5), whether or not a next link came *)
MetricPageSleep(l) == Append(l, Sleep(MetricPageDelay))

MetricFetchOk ==
    /\ fn = "get_placed_order_metric_id" /\ pc = "loop" /\ url # NoUrl
    /\ ~GetRaises(url)
    /\ pages < MaxMetricPages
    /\ \E body \in MetricBodies :
          LET data == DataOf(body)
              nx == NextOf(body)
              hit == FirstPlacedOrder(data)
          IN  /\ pages = MaxMetricPages - 1 => nx = NoUrl
              /\ IF hit # <<>>
                 THEN /\ pc' = "done"
                      /\ ret' = [metric_id |-> hit]
                      /\ url' = url
                      /\ log' = Record(log, Get(url, FALSE, 200, nx))
                 ELSE /\ pc' = pc
                      /\ ret' = ret
                      /\ url' = nx
                      /\ log' = MetricPageSleep(Record(log, Get(url, FALSE, 200, nx)))
              /\ pageSizes' = pageSizes \cup {Len(data)}
              /\ firstSize' = FirstSize(firstSize, data)
              /\ lastKeys' = TopKeys(body)
    /\ pages' = pages + 1
    /\ UNCHANGED <<fn, segments, profile_ids, max_profiles, depth, servedSeq, servedIds,
                   dupSeen, search, found, segment_profiles, report>>
    /\ UNCHANGED <<mainVars, matchVars>>

(* if response.status_code != 200: return None   (a 429 included) *)
MetricFetchErr ==
    /\ fn = "get_placed_order_metric_id" /\ pc = "loop" /\ url # NoUrl
    /\ ~GetRaises(url)
    /\ \E s \in ErrorStatuses \cup {429} :
          log' = Record(log, Get(url, FALSE, s, NoUrl))
    /\ pc' = "done"
    /\ ret' = [metric_id |-> <<>>]
    /\ UNCHANGED <<pages, pageSizes,
                   fn, url, segments, profile_ids, max_profiles, depth, servedSeq,
                   servedIds, dupSeen, search, found, segment_profiles, report>>
    /\ UNCHANGED <<pageVars, mainVars, matchVars>>

MetricGetRaises ==
    /\ fn = "get_placed_order_metric_id" /\ pc = "loop" /\ url # NoUrl
    /\ GetRaises(url)
    /\ pc' = "raised"
    /\ UNCHANGED <<pages, pageSizes,
                   fn, url, segments, profile_ids, max_profiles, ret, depth, log, servedSeq,
                   servedIds, dupSeen, search, found, segment_profiles, report>>
    /\ UNCHANGED <<pageVars, mainVars, matchVars>>

(* the loop ran out of pages: return None *)
MetricReturn ==
    /\ fn = "get_placed_order_metric_id" /\ pc = "loop" /\ url = NoUrl
    /\ pc' = "done"
    /\ ret' = [metric_id |-> <<>>]
    /\ UNCHANGED <<pages, pageSizes,
                   fn, url, segments, profile_ids, max_profiles, depth, log, servedSeq,
                   servedIds, dupSeen, search, found, segment_profiles, report>>
    /\ UNCHANGED <<pageVars, mainVars, matchVars>>

---------------------------------------------------------------------------
(* The fetching functions, each called once *)

InitPage == firstSize = -1 /\ lastKeys = {}

InitMainIdle == found_segments = <<>> /\ choice = <<>> /\ profile_calls = {}

InitMatchIdle ==
    /\ campaigns = <<>> /\ revenue_data = <<>> /\ position = 0
    /\ total_revenue = 0 /\ total_orders = 0 /\ matched_count = 0

InitCommon ==
    /\ InitPage /\ InitMainIdle /\ InitMatchIdle
    /\ segments = <<>> /\ profile_ids = {} /\ ret = NotReturned /\ depth = 0
    /\ log = <<>> /\ pages = 0 /\ pageSizes = {}
    /\ servedSeq = <<>> /\ servedIds = {} /\ dupSeen = FALSE
    /\ search = sEmpty /\ found = <<>>
    /\ segment_profiles = <<>> /\ report = <<>>

Init ==
    /\ InitCommon
    /\ \/ fn = "get_all_segments" /\ pc = "loop" /\ url = SegmentsUrl
          /\ max_profiles = 0
       \/ fn = "get_segment_profile_ids" /\ pc = "loop" /\ url = ProfilesUrl
          /\ max_profiles \in 0..MaxCap
       \/ fn = "get_campaign_revenue" /\ pc = "call" /\ url = RevenueUrl
          /\ max_profiles = 0
       \/ fn = "get_placed_order_metric_id" /\ pc = "loop" /\ url = MetricsUrl
          /\ max_profiles = 0

Next ==
    \/ SegFetchOk \/ SegFetchErr \/ SegGetRaises \/ SegReturn
    \/ ProfFetchOk \/ ProfRateLimited \/ ProfFetchErr \/ ProfGetRaises \/ ProfReturn
    \/ RevRateLimited \/ RevError \/ RevOk
    \/ MetricFetchOk \/ MetricFetchErr \/ MetricGetRaises \/ MetricReturn

Spec == Init /\ [][Next]_vars

---------------------------------------------------------------------------
(* find_segment *)

MinOf(S) == CHOOSE m \in S : \A x \in S : m <= x

(* for s in segments: if s["name"].lower() == search_lower: return s *)
ExactMatches(segs, s) == {i \in DOMAIN segs : Lower(segs[i].name) = Lower(s)}

(* matches = [s for s in segments if search_lower in s["name"].lower()] *)
PartialMatches(segs, s) ==
    SelectSeq(segs, LAMBDA x : IsSubstr(Lower(s), Lower(x.name)))

(* Faulty variant: several partial matches are resolved to the first of them *)
FindFirstPartial(segs, s) ==
    LET matches == PartialMatches(segs, s)
    IN  IF Len(matches) >= 1 THEN <<matches[1]>> ELSE <<>>

(* the result: <<>> models None, <<x>> the segment x *)
FindPartial(segs, s) ==
    LET matches == PartialMatches(segs, s)
    IN  IF Len(matches) = 1 THEN <<matches[1]>> ELSE <<>>

(* Faulty variant: the pass for an exact match is left out *)
FindPartialOnly(segs, s) == FindPartial(segs, s)

find_segment(segs, s) ==
    IF ExactMatches(segs, s) # {}
    THEN <<segs[MinOf(ExactMatches(segs, s))]>>
    ELSE FindPartial(segs, s)

(* The segments the list handed to find_segment is built of *)
FindPool ==
    {[id |-> 1, name |-> sNoDelta8], [id |-> 2, name |-> sNoTHCA],
     [id |-> 3, name |-> sNoThcaLower], [id |-> 4, name |-> sSemiActive],
     [id |-> 5, name |-> sNo], [id |-> 6, name |-> sEmpty]}

SearchPool ==
    {sNoDelta8, sNoTHCA, sSemiActive, sDelta8Lower, sNoLower, sNoDelta8Upper,
     sSemi, sXyz, sEmpty}

FindCall ==
    /\ fn = "find_segment" /\ pc = "call"
    /\ found' = find_segment(segments, search)
    /\ pc' = "done"
    /\ UNCHANGED <<pages, pageSizes,
                   fn, url, segments, profile_ids, max_profiles, ret, depth, log,
                   servedSeq, servedIds, dupSeen, search, segment_profiles, report>>
    /\ UNCHANGED <<pageVars, mainVars, matchVars>>

InitFind ==
    /\ InitPage /\ InitMainIdle /\ InitMatchIdle
    /\ fn = "find_segment" /\ pc = "call" /\ url = NoUrl /\ max_profiles = 0
    /\ profile_ids = {} /\ ret = NotReturned /\ depth = 0
    /\ log = <<>> /\ pages = 0 /\ pageSizes = {}
    /\ servedSeq = <<>> /\ servedIds = {} /\ dupSeen = FALSE
    /\ segment_profiles = <<>> /\ report = <<>>
    /\ found = <<>>
    /\ segments \in UNION {[1..k -> FindPool] : k \in 0..MaxSegs}
    /\ search \in SearchPool

NextFind == FindCall

SpecFind == InitFind /\ [][NextFind]_vars

---------------------------------------------------------------------------
(* main: the overlap report *)

Targets == {"No Delta 8", "No THCA", "Semi Active"}

(* segment_profiles["No Delta 8"] & segment_profiles["No THCA"] *)
Overlap(A, B) == A \cap B

(* Faulty variant: the difference is taken the wrong way round *)
OnlySecond(A, B) == B \ A

(* segment_profiles["No Delta 8"] - segment_profiles["No THCA"] *)
OnlyFirst(A, B) == A \ B

Has(name) == name \in DOMAIN segment_profiles

(* The numbers printed under RESULTS, by label *)
SizesPrinted == [name \in DOMAIN segment_profiles |-> Cardinality(segment_profiles[name])]

ThcaBlock ==
    IF Has("No Delta 8") /\ Has("No THCA")
    THEN ("No Delta 8 AND No THCA" :>
              Cardinality(Overlap(segment_profiles["No Delta 8"], segment_profiles["No THCA"])))
         @@ ("No Delta 8 but HAVE tried THCA" :>
              Cardinality(OnlyFirst(segment_profiles["No Delta 8"], segment_profiles["No THCA"])))
    ELSE <<>>

SemiBlock ==
    IF Has("No Delta 8") /\ Has("Semi Active")
    THEN "No Delta 8 AND Semi Active" :>
              Cardinality(Overlap(segment_profiles["No Delta 8"], segment_profiles["Semi Active"]))
    ELSE <<>>

ThreeWayBlock ==
    IF \A name \in Targets : Has(name)
    THEN "All three" :>
              Cardinality(Overlap(Overlap(segment_profiles["No Delta 8"],
                                          segment_profiles["No THCA"]),
                                  segment_profiles["Semi Active"]))
    ELSE <<>>

OverlapReport ==
    /\ fn = "main" /\ pc = "results"
    /\ report' = [sizes |-> SizesPrinted,
                  overlaps |-> ThcaBlock @@ SemiBlock @@ ThreeWayBlock]
    /\ pc' = "done"
    /\ UNCHANGED <<pages, pageSizes,
                   fn, url, segments, profile_ids, max_profiles, ret, depth, log,
                   servedSeq, servedIds, dupSeen, search, found, segment_profiles>>
    /\ UNCHANGED <<pageVars, mainVars, matchVars>>

(* The sets fetched for the found segments: at least two segments were found *)
ProfileSetsOf(name) ==
    IF name = "Semi Active" THEN SUBSET (1..NumSemi) ELSE SUBSET (1..NumProfiles)

InitOverlap ==
    /\ InitPage /\ InitMainIdle /\ InitMatchIdle
    /\ fn = "main" /\ pc = "results" /\ url = NoUrl /\ max_profiles = 0
    /\ segments = <<>> /\ profile_ids = {} /\ ret = NotReturned /\ depth = 0
    /\ log = <<>> /\ pages = 0 /\ pageSizes = {}
    /\ servedSeq = <<>> /\ servedIds = {} /\ dupSeen = FALSE
    /\ search = sEmpty /\ found = <<>> /\ report = <<>>
    /\ \E D \in SUBSET Targets :
          /\ Cardinality(D) >= 2
          /\ segment_profiles \in {f \in [D -> SUBSET (1..NumProfiles)] :
                                      \A name \in D : f[name] \in ProfileSetsOf(name)}

NextOverlap == OverlapReport

SpecOverlap == InitOverlap /\ [][NextOverlap]_vars

---------------------------------------------------------------------------
(* main: from the list of segments to the report *)

TargetList == <<"No Delta 8", "No THCA", "Semi Active">>

TargetChars(t) ==
    CASE t = "No Delta 8" -> sNoDelta8
      [] t = "No THCA" -> sNoTHCA
      [] OTHER -> sSemiActive

(* for target in targets: seg = find_segment(segments, target); if seg: ... *)
FoundTargets(segs) ==
    LET D == {t \in Targets : find_segment(segs, TargetChars(t)) # <<>>}
    IN  [t \in D |-> find_segment(segs, TargetChars(t))[1]]

(* if len(found) < 2: return *)
EnoughFound(f) == ~(Cardinality(DOMAIN f) < 2)

sOne == <<"1">>
sTwo == <<"2">>

(* What the user can type at the prompt *)
RawInputs == {<<>>, sOne, sTwo, <<" ">>, <<" ", "1", " ">>, <<" ", "2">>, <<"y">>}

RECURSIVE StripLeft(_)
StripLeft(s) == IF s # <<>> /\ s[1] = " " THEN StripLeft(Tail(s)) ELSE s

RECURSIVE StripRight(_)
StripRight(s) ==
    IF s # <<>> /\ s[Len(s)] = " " THEN StripRight(SubSeq(s, 1, Len(s) - 1)) ELSE s

(* input(...).strip() or "1" *)
Choice(raw) ==
    LET t == StripRight(StripLeft(raw))
    IN  IF t = <<>> THEN sOne ELSE t

(* Faulty variant: the quick mode is never taken *)
IsQuickNever(c) == FALSE

(* if choice == "1": *)
IsQuick(c) == c = sOne

(* The set a call of get_segment_profile_ids can return *)
FetchedSets == SUBSET {1, 2}

(* The segments get_all_segments has returned to main: the three targets   *)
(* and a second spelling of one of them                                    *)
MainPool ==
    {[id |-> 1, name |-> sNoDelta8], [id |-> 2, name |-> sNoTHCA],
     [id |-> 3, name |-> sNoThcaLower], [id |-> 4, name |-> sSemiActive]}

(* for name, seg in found.items(): the first name not fetched yet *)
ToFetch == {i \in DOMAIN TargetList :
               /\ TargetList[i] \in DOMAIN found_segments
               /\ TargetList[i] \notin DOMAIN segment_profiles}

MainFind ==
    /\ fn = "main" /\ pc = "find"
    /\ found_segments' = FoundTargets(segments)
    /\ pc' = IF EnoughFound(FoundTargets(segments)) THEN "ask" ELSE "done"
    /\ UNCHANGED <<fn, url, segments, profile_ids, max_profiles, ret, depth, log,
                   pages, pageSizes, servedSeq, servedIds, dupSeen, search, found,
                   segment_profiles, report, choice, profile_calls>>
    /\ UNCHANGED <<pageVars, matchVars>>

(* the prompt; the quick mode prints the names found and ends *)
MainAsk ==
    /\ fn = "main" /\ pc = "ask"
    /\ \E raw \in RawInputs :
          /\ choice' = Choice(raw)
          /\ pc' = IF IsQuick(Choice(raw)) THEN "done" ELSE "fetch"
    /\ UNCHANGED <<fn, url, segments, profile_ids, max_profiles, ret, depth, log,
                   pages, pageSizes, servedSeq, servedIds, dupSeen, search, found,
                   segment_profiles, report, found_segments, profile_calls>>
    /\ UNCHANGED <<pageVars, matchVars>>

(* one pass of the loop: get_segment_profile_ids(seg["id"], seg["name"]),  *)
(* which requests at least the first page of the segment's profiles, then  *)
(* time.sleep(1)                                                           *)
MainFetch ==
    /\ fn = "main" /\ pc = "fetch" /\ ToFetch # {}
    /\ LET name == TargetList[MinOf(ToFetch)]
       IN  /\ \E S \in FetchedSets : segment_profiles' = segment_profiles @@ (name :> S)
           /\ profile_calls' = profile_calls \cup {name}
    /\ log' = Append(log, Sleep(SegmentPause))
    /\ pc' = IF Cardinality(ToFetch) = 1 THEN "results" ELSE "fetch"
    /\ UNCHANGED <<fn, url, segments, profile_ids, max_profiles, ret, depth,
                   pages, pageSizes, servedSeq, servedIds, dupSeen, search, found,
                   report, found_segments, choice>>
    /\ UNCHANGED <<pageVars, matchVars>>

InitMain ==
    /\ InitPage /\ InitMainIdle /\ InitMatchIdle
    /\ fn = "main" /\ pc = "find" /\ url = NoUrl /\ max_profiles = 0
    /\ profile_ids = {} /\ ret = NotReturned /\ depth = 0
    /\ log = <<>> /\ pages = 0 /\ pageSizes = {}
    /\ servedSeq = <<>> /\ servedIds = {} /\ dupSeen = FALSE
    /\ search = sEmpty /\ found = <<>>
    /\ segment_profiles = <<>> /\ report = <<>>
    /\ segments \in UNION {[1..k -> MainPool] : k \in 0..MaxSegs}

NextMain == MainFind \/ MainAsk \/ MainFetch \/ OverlapReport

SpecMain == InitMain /\ [][NextMain]_vars

---------------------------------------------------------------------------
(* export_campaign_revenue.main: matching revenue to campaigns *)

(* campaign.get("message_id"): None, the empty string, or an id *)
NoneId == "None"
MessageIds == {NoneId, "", "m1", "m2", "m3"}

(* The keys of revenue_data are non-empty ids; "m3" is attributed nothing *)
AttributedIds == {"m1", "m2"}

(* {"revenue": ..., "orders": ...}, the revenue in cents *)
RevenueEntries ==
    {[revenue |-> 0, orders |-> 0], [revenue |-> 1000, orders |-> 1],
     [revenue |-> 2550, orders |-> 2]}

(* if message_id and message_id in revenue_data *)
Matched(mid, rd) == mid \notin {NoneId, ""} /\ mid \in DOMAIN rd

(* Faulty variant: the revenue is stored under both keys *)
MatchedEntryRevenueTwice(mid, rd) ==
    IF Matched(mid, rd)
    THEN [revenue |-> rd[mid].revenue, orders |-> rd[mid].revenue]
    ELSE [revenue |-> 0, orders |-> 0]

(* campaign["revenue"], campaign["orders"] after the if *)
MatchedEntry(mid, rd) ==
    IF Matched(mid, rd)
    THEN [revenue |-> rd[mid].revenue, orders |-> rd[mid].orders]
    ELSE [revenue |-> 0, orders |-> 0]

(* one pass of `for campaign in campaigns:` *)
MatchStep ==
    /\ fn = "export_main" /\ pc = "match" /\ position < Len(campaigns)
    /\ LET i == position + 1
           message_id == campaigns[i].message_id
           entry == MatchedEntry(message_id, revenue_data)
       IN  /\ campaigns' = [campaigns EXCEPT ![i] =
                               [message_id |-> message_id,
                                revenue |-> entry.revenue,
                                orders |-> entry.orders]]
           /\ matched_count' = IF Matched(message_id, revenue_data)
                               THEN matched_count + 1 ELSE matched_count
           /\ total_revenue' = total_revenue + entry.revenue
           /\ total_orders' = total_orders + entry.orders
           /\ position' = i
           /\ pc' = IF i = Len(campaigns) THEN "done" ELSE "match"
    /\ UNCHANGED <<fn, url, segments, profile_ids, max_profiles, ret, depth, log,
                   pages, pageSizes, servedSeq, servedIds, dupSeen, search, found,
                   segment_profiles, report, revenue_data>>
    /\ UNCHANGED <<pageVars, mainVars>>

(* main reaches the loop with a non-empty list of campaigns *)
InitMatch ==
    /\ InitPage /\ InitMainIdle
    /\ fn = "export_main" /\ pc = "match" /\ url = NoUrl /\ max_profiles = 0
    /\ segments = <<>> /\ profile_ids = {} /\ ret = NotReturned /\ depth = 0
    /\ log = <<>> /\ pages = 0 /\ pageSizes = {}
    /\ servedSeq = <<>> /\ servedIds = {} /\ dupSeen = FALSE
    /\ search = sEmpty /\ found = <<>>
    /\ segment_profiles = <<>> /\ report = <<>>
    /\ campaigns \in UNION {[1..k -> {[message_id |-> m] : m \in MessageIds}] :
                                k \in 1..MaxCampaigns}
    /\ revenue_data \in UNION {[D -> RevenueEntries] : D \in SUBSET AttributedIds}
    /\ position = 0
    /\ total_revenue = 0 /\ total_orders = 0 /\ matched_count = 0

NextMatch == MatchStep

SpecMatch == InitMatch /\ [][NextMatch]_vars

---------------------------------------------------------------------------
(* Vocabulary of the properties *)

Fetching == fn \in {"get_all_segments", "get_segment_profile_ids"}

LastRequest(l) == CHOOSE i \in Requests(l) : \A j \in Requests(l) : j <= i

(* The requests answered by a status that is neither 200 nor 429 *)
FailedAt(l) == {i \in Requests(l) : l[i].n \notin {200, 429}}

(* The latest request was answered by status s *)
LastAnswered(l, s) == Requests(l) # {} /\ l[LastRequest(l)].n = s

IsRateLimited(e) == IsRequest(e) /\ e.n = 429

(* k: the log ends with k answers 429 in a row, each followed by its sleep *)
EndsWithRateLimited(l, k) ==
    /\ 2 * k <= Len(l)
    /\ \A j \in 1..k : /\ IsRateLimited(l[Len(l) - 2 * j + 1])
                       /\ l[Len(l) - 2 * j + 2].ev = "sleep"

NoDupIds(recs) == \A i, j \in DOMAIN recs : i # j => recs[i].id # recs[j].id

(* Case-insensitive comparison, stated without str.lower() *)
SameLetter(c, d) ==
    \/ c = d
    \/ \E k \in DOMAIN UpperChars : {c, d} = {UpperChars[k], LowerChars[k]}

EqIgnoreCase(a, b) ==
    Len(a) = Len(b) /\ \A i \in 1..Len(a) : SameLetter(a[i], b[i])

ContainsIgnoreCase(a, b) ==
    \E k \in 0..(Len(b) - Len(a)) : \A i \in 1..Len(a) : SameLetter(b[k + i], a[i])

ExactAt == {i \in DOMAIN segments : EqIgnoreCase(segments[i].name, search)}
ContainingAt == {i \in DOMAIN segments : ContainsIgnoreCase(search, segments[i].name)}

---------------------------------------------------------------------------
(* C1: a page answered 429 is retried at most max_retries times; once the  *)
(* first attempt and max_retries retries have all been answered 429, the   *)
(* operation has ended with RateLimitExceeded (get_segment_profile_ids and *)
(* get_campaign_revenue).                                                  *)
C1_RetriesBounded ==
    (fn \in {"get_segment_profile_ids", "get_campaign_revenue"}
        /\ EndsWithRateLimited(log, max_retries + 1))
    => pc = "RateLimitExceeded"

(* C2: with a cap N, more records than N on the server, and pages of one   *)
(* size p that divides N, all identifiers distinct, the collection halts   *)
(* with exactly N identifiers and the result is flagged truncated.         *)
CapPremise ==
    /\ fn = "get_segment_profile_ids" /\ pc = "done"
    /\ max_profiles >= 1 /\ pages >= 1
    /\ url # NoUrl                         \* more pages remain
    /\ FailedAt(log) = {}
    /\ ~dupSeen
    /\ \E p \in 1..MaxPage : max_profiles % p = 0 /\ pageSizes = {p}

C2_CapTruncated ==
    CapPremise =>
        /\ Cardinality(ret.records) = max_profiles
        /\ "truncated" \in DOMAIN ret
        /\ ret.truncated = TRUE

(* The count alone, which the code does deliver under the premise of C2 *)
CapHaltsAtExactlyN == CapPremise => Cardinality(ret.records) = max_profiles

(* C3: a collection that met no failing response and did not reach its cap *)
(* has ended on a page without links.next, a request that follows a 200    *)
(* page shows that the page carried a links.next, and the result holds the *)
(* records of every page.                                                  *)
C3_Exhausted ==
    Fetching =>
      /\ \A i, j \in Requests(log) : (i < j /\ log[i].n = 200) => log[i].next # NoUrl
      /\ (/\ pc = "done"
          /\ \A i \in Requests(log) : log[i].n \in {200, 429}
          /\ fn = "get_all_segments" => LastAnswered(log, 200)
          /\ fn = "get_segment_profile_ids" => Cardinality(profile_ids) < max_profiles)
         => /\ LastAnswered(log, 200)
            /\ log[LastRequest(log)].next = NoUrl
            /\ fn = "get_segment_profile_ids" => ret.records = servedIds
            /\ fn = "get_all_segments" =>
                  /\ Len(ret.records) = Len(servedSeq)
                  /\ \A i \in DOMAIN servedSeq : ret.records[i].id = servedSeq[i].id

C3_Witness ==
    /\ fn = "get_segment_profile_ids" /\ pc = "done"
    /\ LastAnswered(log, 200)
    /\ Cardinality(profile_ids) < max_profiles
    /\ pages >= 2
    /\ Cardinality(ret.records) >= 2

(* C4: a status that is neither 200 nor 429 ends the collection: nothing   *)
(* is requested (or slept) after it, and the function has returned the     *)
(* records of the pages fetched before it, no more and no fewer.           *)
C4_ErrorStops ==
    Fetching =>
        \A i \in FailedAt(log) :
            /\ i = Len(log)
            /\ pc = "done"
            /\ "records" \in DOMAIN ret
            /\ fn = "get_segment_profile_ids" => ret.records = servedIds
            /\ fn = "get_all_segments" =>
                  /\ Len(ret.records) = Len(servedSeq)
                  /\ \A k \in DOMAIN servedSeq : ret.records[k].id = servedSeq[k].id

C4_Witness ==
    /\ fn = "get_segment_profile_ids" /\ pc = "done"
    /\ FailedAt(log) # {}
    /\ pages >= 2
    /\ ret.records # {}

(* C5: no identifier occurs twice in the result of a collection, also when *)
(* it was served on two pages.  The set of get_segment_profile_ids cannot  *)
(* hold one twice; the list of get_all_segments is what is examined.       *)
C5_UniqueIds ==
    (fn = "get_all_segments" /\ pc = "done") => NoDupIds(ret.records)

(* C6: in get_segment_profile_ids every 429 is followed by exactly one     *)
(* backoff sleep and then by a request for the same URL, a backoff sleep   *)
(* happens only after a 429, and the records of the page that finally      *)
(* arrives are in the set: k answers 429 before a 200 make k sleeps.       *)
C6_BackoffPerRetry ==
    fn = "get_segment_profile_ids" =>
        /\ \A i \in DOMAIN log :
              /\ IsRateLimited(log[i]) =>
                    /\ i < Len(log)
                    /\ log[i + 1] = Sleep(BackoffTenths)
                    /\ i + 2 <= Len(log) =>
                          /\ IsRequest(log[i + 2])
                          /\ log[i + 2].url = log[i].url
                          /\ log[i + 2].params = log[i].params
                    /\ i + 1 = Len(log) => pc = "loop" /\ url = log[i].url
              /\ log[i] = Sleep(BackoffTenths) => i > 1 /\ IsRateLimited(log[i - 1])
        /\ servedIds \subseteq profile_ids

(* 429, 429, 200 on one page: two sleeps, then the page's records *)
C6_Witness ==
    /\ fn = "get_segment_profile_ids"
    /\ \E i \in DOMAIN log :
          /\ i + 4 <= Len(log)
          /\ IsRateLimited(log[i]) /\ log[i + 1] = Sleep(BackoffTenths)
          /\ IsRateLimited(log[i + 2]) /\ log[i + 3] = Sleep(BackoffTenths)
          /\ IsRequest(log[i + 4]) /\ log[i + 4].n = 200
          /\ (i > 2 => ~IsRateLimited(log[i - 2]))
    /\ profile_ids # {}

(* C7: if some segment's name equals the search string up to case,         *)
(* find_segment returns a segment of the list whose name does.             *)
C7_ExactWins ==
    (fn = "find_segment" /\ pc = "done" /\ ExactAt # {})
    => /\ found # <<>>
       /\ EqIgnoreCase(found[1].name, search)
       /\ \E i \in DOMAIN segments : segments[i] = found[1]

(* an exact match beside two further names that only contain the string *)
C7_Witness ==
    /\ fn = "find_segment" /\ pc = "done"
    /\ ExactAt # {}
    /\ Cardinality(ContainingAt \ ExactAt) >= 2
    /\ found # <<>>

(* C8: without an exact match, find_segment returns the one segment whose  *)
(* name contains the search string up to case, and None when two or more   *)
(* names contain it or none does.                                          *)
C8_PartialMatch ==
    (fn = "find_segment" /\ pc = "done" /\ ExactAt = {})
    => /\ Cardinality(ContainingAt) = 1 =>
             found = <<segments[CHOOSE i \in ContainingAt : TRUE]>>
       /\ Cardinality(ContainingAt) # 1 => found = <<>>

(* ["No Delta 8", "No THCA"] and "delta 8" *)
C8_Witness ==
    /\ fn = "find_segment" /\ pc = "done"
    /\ Len(segments) = 2
    /\ segments[1].name = sNoDelta8 /\ segments[2].name = sNoTHCA
    /\ search = sDelta8Lower
    /\ found = <<segments[1]>>

(* C9: the sizes printed for A = No Delta 8 and B = No THCA satisfy        *)
(* |A & B| + |A - B| = |A|.                                                *)
C9_OverlapSizes ==
    (fn = "main" /\ pc = "done" /\ Has("No Delta 8") /\ Has("No THCA"))
    => /\ report.overlaps["No Delta 8 AND No THCA"]
            + report.overlaps["No Delta 8 but HAVE tried THCA"]
          = Cardinality(segment_profiles["No Delta 8"])
       /\ report.sizes["No Delta 8"] = Cardinality(segment_profiles["No Delta 8"])

(* A = {1,2,3,4}, B = {3,4,5,6}: 2 and 2 *)
C9_Witness ==
    /\ fn = "main" /\ pc = "done" /\ Has("No Delta 8") /\ Has("No THCA")
    /\ segment_profiles["No Delta 8"] = {1, 2, 3, 4}
    /\ segment_profiles["No THCA"] = {3, 4, 5, 6}
    /\ report.overlaps["No Delta 8 AND No THCA"] = 2
    /\ report.overlaps["No Delta 8 but HAVE tried THCA"] = 2

(* C10: a collection ended by a status that is neither 200 nor 429 returns *)
(* a result that carries an error description with the status code and the *)
(* index of the failing page.                                              *)
C10_ErrorAttached ==
    (Fetching /\ pc = "done" /\ FailedAt(log) # {})
    => /\ "error" \in DOMAIN ret
       /\ ret.error = [status |-> log[LastRequest(log)].n,
                       page |-> pages]

---------------------------------------------------------------------------
(* Vocabulary of the properties, continued *)

MaxOfSet(S) == CHOOSE m \in S : \A x \in S : x <= m

(* The sum of a field over the first k campaigns *)
RECURSIVE SumField(_, _)
SumField(k, field) ==
    IF k = 0 THEN 0 ELSE campaigns[k][field] + SumField(k - 1, field)

Collecting ==
    fn \in {"get_all_segments", "get_segment_profile_ids", "get_placed_order_metric_id"}

(* The function has returned what the 200 pages held *)
ReturnedServed ==
    /\ "records" \in DOMAIN ret
    /\ fn = "get_segment_profile_ids" => ret.records = servedIds
    /\ fn = "get_all_segments" =>
          /\ Len(ret.records) = Len(servedSeq)
          /\ \A k \in DOMAIN servedSeq : ret.records[k].id = servedSeq[k].id

ReturnedNothing ==
    /\ "records" \in DOMAIN ret
    /\ fn = "get_segment_profile_ids" => ret.records = {}
    /\ fn = "get_all_segments" => ret.records = <<>>

(* C11: main calls get_segment_profile_ids only after an answer other     *)
(* than "1" (the default) at the prompt, and only when at least two of the *)
(* targets were found; in quick mode main ends without any such call.      *)
C11_QuickNoFetch ==
    fn = "main" =>
        /\ profile_calls # {} =>
              /\ choice \notin {<<>>, sOne}
              /\ Cardinality(DOMAIN found_segments) >= 2
              /\ \A t \in DOMAIN found_segments :
                    /\ t \in Targets
                    /\ \E i \in DOMAIN segments : segments[i] = found_segments[t]
                    /\ ContainsIgnoreCase(TargetChars(t), found_segments[t].name)
              /\ profile_calls \subseteq DOMAIN found_segments
        /\ choice = sOne => profile_calls = {} /\ pc = "done"
        /\ pc = "done" /\ profile_calls = {} => segment_profiles = <<>>

(* three targets found, quick mode taken by the default answer *)
C11_Witness ==
    /\ fn = "main" /\ pc = "done"
    /\ Cardinality(DOMAIN found_segments) = 3
    /\ choice = sOne
    /\ profile_calls = {}

(* C12: in get_segment_profile_ids only requests for the first URL carry   *)
(* the page[size] parameter; a request for a next link never does, with    *)
(* or without a query string in that link.                                 *)
C12_ParamsFirstOnly ==
    fn = "get_segment_profile_ids" =>
        \A i \in Requests(log) : log[i].params => log[i].url = ProfilesUrl

(* C13: in get_all_segments, get_segment_profile_ids and                   *)
(* get_placed_order_metric_id whatever follows a 200 page is the           *)
(* inter-page sleep, and a 200 page that nothing follows leaves no URL to  *)
(* request (or the function has returned): no request comes directly       *)
(* after a 200 response.                                                   *)
C13_SleepBetweenPages ==
    Collecting =>
        \A i \in Requests(log) :
            log[i].n = 200 =>
                /\ i < Len(log) =>
                      log[i + 1] = Sleep(IF fn = "get_all_segments"
                                         THEN SegmentPageDelay
                                         ELSE IF fn = "get_segment_profile_ids"
                                              THEN RATE_LIMIT_DELAY
                                              ELSE MetricPageDelay)
                /\ i = Len(log) => url = NoUrl \/ pc = "done"

(* two profile pages in a row, no 429 between them *)
C13_Witness ==
    /\ fn = "get_segment_profile_ids"
    /\ \E i \in DOMAIN log :
          /\ i + 2 <= Len(log)
          /\ IsRequest(log[i]) /\ log[i].n = 200
          /\ log[i + 1] = Sleep(RATE_LIMIT_DELAY)
          /\ IsRequest(log[i + 2]) /\ log[i + 2].n = 200

(* C14 as stated: a 200 page that lacks the data key or the links key is   *)
(* the end of the collection: nothing is requested after it and the        *)
(* function returns what it has gathered.                                  *)
C14_MissingKeyEnds ==
    (Fetching /\ pages >= 1 /\ lastKeys # {"data", "links"})
    => /\ LastAnswered(log, 200)
       /\ url = NoUrl
       /\ pc \in {"loop", "done"}
       /\ pc = "done" => ReturnedServed

(* C14, amended: a 200 page that lacks the links key is the end of the     *)
(* collection: nothing is requested after it and the function returns what *)
(* it has gathered; a page that lacks the data key adds no record.         *)
C14_MissingLinksEnds ==
    Fetching =>
        /\ (pages >= 1 /\ "links" \notin lastKeys)
            => /\ LastAnswered(log, 200)
               /\ url = NoUrl
               /\ pc \in {"loop", "done"}
               /\ pc = "done" => ReturnedServed
        /\ (pages = 1 /\ "data" \notin lastKeys)
            => profile_ids = {} /\ segments = <<>>

(* a second page without links, after a page with records *)
C14_Witness ==
    /\ fn = "get_segment_profile_ids" /\ pc = "done"
    /\ pages >= 2 /\ "links" \notin lastKeys
    /\ LastAnswered(log, 200)
    /\ ret.records # {}

(* C15: a next link that is no URL is taken for the end of the collection: *)
(* the function does not fail on it and returns what it has gathered.      *)
C15_MalformedEnds ==
    (Fetching /\ url = MalformedUrl)
    => /\ pc \in {"loop", "done"}
       /\ pc = "done" => ReturnedServed

(* C16 as stated: when the first 200 page held no record, the result is    *)
(* empty.                                                                  *)
C16_EmptyFirstPage ==
    (Fetching /\ firstSize = 0 /\ pc = "done") => ReturnedNothing

(* C16, amended: when the first 200 page held no record and no links.next, *)
(* nothing is requested after it and the result is empty.                  *)
C16_EmptyOnlyPage ==
    (/\ Fetching /\ firstSize = 0 /\ pages = 1
     /\ \A i \in Requests(log) : log[i].n = 200 => log[i].next = NoUrl)
    => /\ LastAnswered(log, 200)
       /\ url = NoUrl
       /\ pc \in {"loop", "done"}
       /\ pc = "done" => ReturnedNothing

(* an empty page after two 429, and the empty set returned *)
C16_Witness ==
    /\ fn = "get_segment_profile_ids" /\ pc = "done"
    /\ firstSize = 0 /\ pages = 1
    /\ LastAnswered(log, 200)
    /\ NumStatus(log, 429) = 2
    /\ ret.records = {}

(* C17: a campaign the loop has handled carries the revenue and orders of  *)
(* the aggregate entry of its message_id when that id is neither None nor  *)
(* empty and is a key of revenue_data, and 0 / 0 otherwise; matched_count  *)
(* is the number of the campaigns of the first kind, total_revenue and     *)
(* total_orders are the sums over the campaigns handled.                   *)
C17_RevenueMatched ==
    fn = "export_main" =>
        LET done == 1..position
            hit(i) == /\ campaigns[i].message_id # NoneId
                      /\ campaigns[i].message_id # ""
                      /\ campaigns[i].message_id \in DOMAIN revenue_data
        IN  /\ pc = "done" => position = Len(campaigns)
            /\ \A i \in done :
                  IF hit(i)
                  THEN /\ campaigns[i].revenue = revenue_data[campaigns[i].message_id].revenue
                       /\ campaigns[i].orders = revenue_data[campaigns[i].message_id].orders
                  ELSE campaigns[i].revenue = 0 /\ campaigns[i].orders = 0
            /\ matched_count = Cardinality({i \in done : hit(i)})
            /\ total_revenue = SumField(position, "revenue")
            /\ total_orders = SumField(position, "orders")

(* one campaign matched, one without message_id, one attributed nothing *)
C17_Witness ==
    /\ fn = "export_main" /\ pc = "done"
    /\ Len(campaigns) = 3
    /\ campaigns[1].message_id = "m1" /\ campaigns[1].revenue = 2550
    /\ campaigns[1].orders = 2
    /\ campaigns[2].message_id = NoneId
    /\ campaigns[3].message_id = "m3"
    /\ matched_count = 1 /\ total_revenue = 2550 /\ total_orders = 2

====
